---- MODULE Spec2Model ----
(***************************************************************************)
(* Model of the text search counter (text_search.js): the terms loader,    *)
(* the occurrence counter with its regular expression, the file            *)
(* enumerator, the CSV emitter and main()'s control flow.                  *)
(*                                                                         *)
(* A JavaScript string is a sequence of one-character strings, so that     *)
(* split, trim, toLowerCase, escaping and matching are computed character  *)
(* by character.  Offsets into a string are 0-based as in JavaScript: the  *)
(* character at offset p of s is s[p + 1].                                 *)
(***************************************************************************)
EXTENDS Integers, Sequences, FiniteSets, TLC

VARIABLES
    args,           \* process.argv.slice(2)
    disk,           \* the file system: path -> node
    pc,             \* position of main()
    termGroups,     \* main's termGroups (null before it is loaded)
    filesToProcess, \* main's filesToProcess
    idx,            \* main's loop variable i (0-based)
    results,        \* the value countOccurrences returned last
    fileResults,    \* main's fileResults
    csv,            \* the records written by writeResultsToCsv (null if none)
    exitCode,       \* the process' exit code (null while it runs)
    log             \* the console output, one entry per message

vars == <<args, disk, pc, termGroups, filesToProcess, idx, results,
          fileResults, csv, exitCode, log>>

\* A value that may be null: null itself, or a value.
JsNull == [isNull |-> TRUE, value |-> <<>>]
JsValue(v) == [isNull |-> FALSE, value |-> v]

-----------------------------------------------------------------------------
(* Characters *)

LowerLetters == <<"a","b","c","d","e","f","g","h","i","j","k","l","m",
                  "n","o","p","q","r","s","t","u","v","w","x","y","z">>
UpperLetters == <<"A","B","C","D","E","F","G","H","I","J","K","L","M",
                  "N","O","P","Q","R","S","T","U","V","W","X","Y","Z">>
Digits == {"0","1","2","3","4","5","6","7","8","9"}

Range(f) == {f[i] : i \in DOMAIN f}

\* \w of a RegExp without the u flag: [A-Za-z0-9_]
WordChars == Range(LowerLetters) \cup Range(UpperLetters) \cup Digits \cup {"_"}

IsWordChar(ch) == ch \in WordChars

\* the characters String.prototype.trim removes
WhiteSpace == {" ", "\t", "\n", "\r", "\f"}

\* the class /[.*+?^${}()|[\]\\]/ of the escaping replace
RegExpSpecials == {".", "*", "+", "?", "^", "$", "{", "}", "(", ")", "|", "[", "]", "\\"}

\* the class [.,!?:;"')\]}] that ends the pattern
TrailingPunctuation == {".", ",", "!", "?", ":", ";", "\"", "'", ")", "]", "}"}

\* String.prototype.toLowerCase, one character
ToLowerChar(ch) ==
    IF \E i \in DOMAIN UpperLetters : UpperLetters[i] = ch
    THEN LowerLetters[CHOOSE i \in DOMAIN UpperLetters : UpperLetters[i] = ch]
    ELSE ch

toLowerCase(s) == [i \in 1..Len(s) |-> ToLowerChar(s[i])]

-----------------------------------------------------------------------------
(* The regular expression of countOccurrences *)

\* term.replace(/[.*+?^${}()|[\]\\]/g, '\\$&'): a backslash before each special
RECURSIVE EscapeFrom(_, _)
EscapeFrom(s, i) ==
    IF i > Len(s) THEN <<>>
    ELSE (IF s[i] \in RegExpSpecials THEN <<"\\", s[i]>> ELSE <<s[i]>>)
         \o EscapeFrom(s, i + 1)

escapeRegExp(s) == EscapeFrom(s, 1)

\* The atoms of a compiled pattern.
WordBoundaryAtom == [kind |-> "b", any |-> FALSE, chars |-> {}, quant |-> "one"]
LiteralAtom(ch)  == [kind |-> "set", any |-> FALSE, chars |-> {ch}, quant |-> "one"]
AnyCharAtom      == [kind |-> "set", any |-> TRUE, chars |-> {}, quant |-> "one"]
TrailingAtom     == [kind |-> "set", any |-> FALSE, chars |-> TrailingPunctuation,
                     quant |-> "star"]

QuantifierOf(ch) == IF ch = "*" THEN "star" ELSE IF ch = "+" THEN "plus" ELSE "opt"

\* The RegExp parser on the (escaped) term: \x is the literal x, an unescaped
\* . is any character, an unescaped * + ? quantifies the atom before it and is
\* a SyntaxError ("nothing to repeat") when there is none.  The model's terms
\* hold no other special character.
RECURSIVE ParseAtoms(_, _, _)
ParseAtoms(src, i, acc) ==
    IF i > Len(src) THEN [ok |-> TRUE, atoms |-> acc]
    ELSE IF src[i] = "\\" /\ i < Len(src)
    THEN ParseAtoms(src, i + 2, Append(acc, LiteralAtom(src[i + 1])))
    ELSE IF src[i] = "."
    THEN ParseAtoms(src, i + 1, Append(acc, AnyCharAtom))
    ELSE IF src[i] \in {"*", "+", "?"}
    THEN IF acc # <<>> /\ acc[Len(acc)].quant = "one"
         THEN ParseAtoms(src, i + 1,
                  [acc EXCEPT ![Len(acc)].quant = QuantifierOf(src[i])])
         ELSE [ok |-> FALSE, atoms |-> <<>>]
    ELSE ParseAtoms(src, i + 1, Append(acc, LiteralAtom(src[i])))

\* new RegExp('\\b' + escaped term + '\\b[.,!?:;"\')\\]\\}]*', 'g')
NewRegExp(term) ==
    LET body == ParseAtoms(escapeRegExp(toLowerCase(term)), 1, <<>>)
    IN  [ok    |-> body.ok,
         atoms |-> <<WordBoundaryAtom>> \o body.atoms \o <<WordBoundaryAtom, TrailingAtom>>]

\* a pattern without its \b: a match may start and end anywhere
AtWordBoundary_Anywhere(s, p) == TRUE

\* a word delimited by white space or the ends of the text instead of \b
AtWordBoundary_SpaceDelimited(s, p) ==
    \/ p = 0 \/ p = Len(s)
    \/ s[p] \in WhiteSpace \/ s[p + 1] \in WhiteSpace

\* \b at offset p: exactly one of the characters before and after is a word
\* character (the ends of the string count as non-word)
AtWordBoundary(s, p) ==
    LET before == p > 0 /\ IsWordChar(s[p])
        after  == p < Len(s) /\ IsWordChar(s[p + 1])
    IN  before # after

AtomAccepts(atom, ch) == atom.any \/ ch \in atom.chars

\* how many characters from offset p on the atom accepts, at most
RECURSIVE RunLength(_, _, _)
RunLength(atom, s, p) ==
    IF p < Len(s) /\ AtomAccepts(atom, s[p + 1])
    THEN 1 + RunLength(atom, s, p + 1)
    ELSE 0

\* The backtracking matcher: the end offset of the match of atoms[k..] that
\* starts at offset p, or -1.  A quantifier is greedy: it takes the longest
\* run first and gives characters back one at a time.
RECURSIVE MatchFrom(_, _, _, _), TryRun(_, _, _, _, _, _)
MatchFrom(atoms, k, s, p) ==
    IF k > Len(atoms) THEN p
    ELSE LET atom == atoms[k] IN
         IF atom.kind = "b"
         THEN IF AtWordBoundary(s, p) THEN MatchFrom(atoms, k + 1, s, p) ELSE -1
         ELSE IF atom.quant = "one"
         THEN IF p < Len(s) /\ AtomAccepts(atom, s[p + 1])
              THEN MatchFrom(atoms, k + 1, s, p + 1)
              ELSE -1
         ELSE LET most  == IF atom.quant = "opt"
                           THEN (IF RunLength(atom, s, p) > 0 THEN 1 ELSE 0)
                           ELSE RunLength(atom, s, p)
                  least == IF atom.quant = "plus" THEN 1 ELSE 0
              IN  TryRun(atoms, k, s, p, most, least)

TryRun(atoms, k, s, p, n, least) ==
    IF n < least THEN -1
    ELSE LET e == MatchFrom(atoms, k + 1, s, p + n)
         IN  IF e # -1 THEN e ELSE TryRun(atoms, k, s, p, n - 1, least)

\* String.prototype.match with a global RegExp: the matches found from
\* lastIndex = from on, each search starting where the previous match ended
\* (one further after an empty match); a match is <<start, end>>.
RECURSIVE MatchAllFrom(_, _, _)
MatchAllFrom(atoms, s, from) ==
    LET starts == {p \in from..Len(s) : MatchFrom(atoms, 1, s, p) # -1}
    IN  IF starts = {} THEN <<>>
        ELSE LET first == CHOOSE p \in starts : \A q \in starts : p <= q
                 end   == MatchFrom(atoms, 1, s, first)
                 next  == IF end = first THEN end + 1 ELSE end
             IN  <<(<<first, end>>)>> \o MatchAllFrom(atoms, s, next)

\* lowerContent.match(pattern): null when nothing matches
StringMatch(s, atoms) ==
    LET found == MatchAllFrom(atoms, s, 0)
    IN  IF found = <<>> THEN JsNull ELSE JsValue(found)

-----------------------------------------------------------------------------
(* Strings and paths *)

\* the printable ASCII characters in ascending order of their UTF-16 code
\* units (the grave accent, which no path of the model holds, left out)
Ascii ==
    <<" ","!","\"","#","$","%","&","'","(",")","*","+",",","-",".","/",
      "0","1","2","3","4","5","6","7","8","9",":",";","<","=",">","?","@",
      "A","B","C","D","E","F","G","H","I","J","K","L","M","N","O","P","Q",
      "R","S","T","U","V","W","X","Y","Z","[","\\","]","^","_",
      "a","b","c","d","e","f","g","h","i","j","k","l","m","n","o","p","q",
      "r","s","t","u","v","w","x","y","z","{","|","}","~">>

CodeUnit(ch) == CHOOSE i \in DOMAIN Ascii : Ascii[i] = ch

\* a < b for two strings as Array.prototype.sort compares them by default:
\* by code units, a proper prefix first
StringLess(a, b) ==
    \E k \in 1..(Len(b)) :
        /\ \A j \in 1..(k - 1) : j <= Len(a) /\ a[j] = b[j]
        /\ \/ k = Len(a) + 1
           \/ k <= Len(a) /\ CodeUnit(a[k]) < CodeUnit(b[k])

\* Array.prototype.sort() without a comparator, on strings
RECURSIVE SortStrings(_)
SortStrings(seq) ==
    IF seq = <<>> THEN <<>>
    ELSE LET m == CHOOSE i \in DOMAIN seq :
                      /\ \A j \in DOMAIN seq : ~StringLess(seq[j], seq[i])
                      /\ \A j \in 1..(i - 1) : seq[j] # seq[i]
             rest == [j \in 1..(Len(seq) - 1) |-> IF j < m THEN seq[j] ELSE seq[j + 1]]
         IN  <<seq[m]>> \o SortStrings(rest)

\* String.prototype.split with a one-character separator
RECURSIVE Split(_, _)
Split(s, sep) ==
    LET at == {i \in DOMAIN s : s[i] = sep}
    IN  IF at = {} THEN <<s>>
        ELSE LET i == CHOOSE x \in at : \A y \in at : x <= y
             IN  <<SubSeq(s, 1, i - 1)>> \o Split(SubSeq(s, i + 1, Len(s)), sep)

\* String.prototype.trim
trim(s) ==
    LET keep == {i \in DOMAIN s : s[i] \notin WhiteSpace}
    IN  IF keep = {} THEN <<>>
        ELSE SubSeq(s, CHOOSE i \in keep : \A j \in keep : i <= j,
                       CHOOSE i \in keep : \A j \in keep : i >= j)

MapTrim(seq) == [i \in DOMAIN seq |-> trim(seq[i])]

\* path.join(dir, file) for a directory path without a trailing separator
PathJoin(dir, file) == dir \o <<"/">> \o file

\* path.basename(p)
PathBasename(p) == Split(p, "/")[Len(Split(p, "/"))]

-----------------------------------------------------------------------------
(* The file system.  disk maps each existing path to its node              *)
(*   [kind, readable, content, entries]                                     *)
(* kind "file", "dir" or "other"; entries is what readdir lists, in the    *)
(* order the operating system gives them.                                   *)

FileNode(readable, content) ==
    [kind |-> "file", readable |-> readable, content |-> content, entries |-> <<>>]
DirNode(readable, entries) ==
    [kind |-> "dir", readable |-> readable, content |-> <<>>, entries |-> entries]
OtherNode ==
    [kind |-> "other", readable |-> FALSE, content |-> <<>>, entries |-> <<>>]

\* fs.readFile(path, 'utf8'): the content, or the error code it rejects with
FsReadFile(d, path) ==
    IF path \notin DOMAIN d THEN [err |-> "ENOENT", data |-> <<>>]
    ELSE IF d[path].kind = "dir" THEN [err |-> "EISDIR", data |-> <<>>]
    ELSE IF ~d[path].readable THEN [err |-> "EACCES", data |-> <<>>]
    ELSE [err |-> "", data |-> d[path].content]

LogEntry(msg, path, n, of) == [msg |-> msg, path |-> path, n |-> n, of |-> of]

-----------------------------------------------------------------------------
(* readSearchTerms *)

IsNonEmpty(line) == line # <<>>

TermGroupOf(line) == <<line, MapTrim(Split(line, "/"))>>

\* the loader without  .filter(line => line): a blank line gives a group
ParseTermGroups_KeepBlank(content) ==
    LET lines == MapTrim(Split(content, "\n"))
    IN  [i \in DOMAIN lines |-> TermGroupOf(lines[i])]

ParseTermGroups(content) ==
    LET lines == SelectSeq(MapTrim(Split(content, "\n")), IsNonEmpty)
    IN  [i \in DOMAIN lines |-> TermGroupOf(lines[i])]

\* the loader returning [] on a failure, as getFilesToProcess does
readSearchTerms_EmptyOnError(d, termsFilepath) ==
    LET read == FsReadFile(d, termsFilepath)
    IN  IF read.err = ""
        THEN [value |-> JsValue(ParseTermGroups(read.data)), log |-> <<>>]
        ELSE [value |-> JsValue(<<>>),
              log |-> <<LogEntry("Error reading search terms file", termsFilepath, 0, 0)>>]

\* what readSearchTerms returns, and what it prints
readSearchTerms(d, termsFilepath) ==
    LET read == FsReadFile(d, termsFilepath)
    IN  IF read.err = ""
        THEN [value |-> JsValue(ParseTermGroups(read.data)), log |-> <<>>]
        ELSE [value |-> JsNull,
              log |-> <<LogEntry(IF read.err = "ENOENT"
                                 THEN "Error: Search terms file not found"
                                 ELSE "Error reading search terms file",
                                 termsFilepath, 0, 0)>>]

-----------------------------------------------------------------------------
(* getFilesToProcess *)

\* what the filter callback  async filepath => (await fs.stat(filepath)).isFile()
\* returns: a pending promise for the answer
AsyncIsFile(d, filepath) ==
    [promise |-> TRUE, settlesTo |-> filepath \in DOMAIN d /\ d[filepath].kind = "file"]

\* ToBoolean of a callback's return value: an object, so a promise, is true
Truthy(v) == v.promise \/ v.settlesTo

ListDirectory(d, inputPath) ==
    LET files     == d[inputPath].entries
        joined    == [i \in DOMAIN files |-> PathJoin(inputPath, files[i])]
        KeepIt(p) == Truthy(AsyncIsFile(d, p))
        filePaths == SelectSeq(joined, KeepIt)
    IN  SortStrings(filePaths)

getFilesToProcess(d, inputPath) ==
    IF inputPath \notin DOMAIN d
    THEN [value |-> <<>>, log |-> <<LogEntry("Error accessing path", inputPath, 0, 0)>>]
    ELSE IF d[inputPath].kind = "file"
    THEN [value |-> <<inputPath>>, log |-> <<>>]
    ELSE IF d[inputPath].kind = "dir"
    THEN IF d[inputPath].readable
         THEN [value |-> ListDirectory(d, inputPath), log |-> <<>>]
         ELSE [value |-> <<>>, log |-> <<LogEntry("Error accessing path", inputPath, 0, 0)>>]
    ELSE [value |-> <<>>, log |-> <<>>]

-----------------------------------------------------------------------------
(* countOccurrences *)

\* the key that an assignment obj[key] = number leaves unset: it reaches the
\* __proto__ setter of Object.prototype, which ignores a value that is no object
ProtoKey == <<"_","_","p","r","o","t","o","_","_">>

EmptyObject == <<>>

\* results[groupName] = totalCount
ObjSet(obj, key, val) ==
    IF key = ProtoKey THEN obj
    ELSE [k \in (DOMAIN obj) \cup {key} |-> IF k = key THEN val ELSE obj[k]]

\* Object.keys(obj)
ObjKeys(obj) == DOMAIN obj

\* totalCount = ... in place of totalCount += ...: the last alternative wins
RECURSIVE TotalCount_Overwrite(_, _, _, _)
TotalCount_Overwrite(lowerContent, terms, j, totalCount) ==
    IF j > Len(terms) THEN totalCount
    ELSE LET matches == StringMatch(lowerContent, NewRegExp(terms[j]).atoms)
         IN  TotalCount_Overwrite(lowerContent, terms, j + 1,
                 IF matches.isNull THEN 0 ELSE Len(matches.value))

\* the inner loop: totalCount after the terms from index j on
RECURSIVE TotalCount(_, _, _, _)
TotalCount(lowerContent, terms, j, totalCount) ==
    IF j > Len(terms) THEN totalCount
    ELSE LET matches == StringMatch(lowerContent, NewRegExp(terms[j]).atoms)
         IN  TotalCount(lowerContent, terms, j + 1,
                 totalCount + (IF matches.isNull THEN 0 ELSE Len(matches.value)))

\* the outer loop: results after the groups from index g on
RECURSIVE CountGroups(_, _, _, _)
CountGroups(lowerContent, groups, g, res) ==
    IF g > Len(groups) THEN res
    ELSE CountGroups(lowerContent, groups, g + 1,
             ObjSet(res, groups[g][1], TotalCount(lowerContent, groups[g][2], 1, 0)))

\* every pattern compiles (a SyntaxError of new RegExp is caught like a read error)
PatternsCompile(groups) ==
    \A g \in DOMAIN groups : \A j \in DOMAIN groups[g][2] : NewRegExp(groups[g][2][j]).ok

countOccurrences(d, filepath, groups) ==
    LET read == FsReadFile(d, filepath)
    IN  IF read.err = "ENOENT"
        THEN [value |-> JsNull,
              log |-> <<LogEntry("Error: File not found", filepath, 0, 0)>>]
        ELSE IF read.err # "" \/ ~PatternsCompile(groups)
        THEN [value |-> JsNull,
              log |-> <<LogEntry("Error reading file", filepath, 0, 0)>>]
        ELSE [value |-> JsValue(CountGroups(toLowerCase(read.data), groups, 1, EmptyObject)),
              log |-> <<>>]

-----------------------------------------------------------------------------
(* writeResultsToCsv *)

FilenameHeader == <<"F","i","l","e","n","a","m","e">>

\* results[groupName] read back: an own property, or what the prototype chain
\* gives (Object.prototype itself for __proto__)
ObjGet(obj, key) ==
    IF key \in DOMAIN obj THEN obj[key]
    ELSE IF key = ProtoKey THEN "Object.prototype" ELSE "undefined"

\* the records handed to stringify: the header, then one row per file result
CsvRecords(fResults, groups) ==
    [header |-> <<FilenameHeader>> \o [g \in DOMAIN groups |-> groups[g][1]],
     rows   |-> [r \in DOMAIN fResults |->
                    [name  |-> PathBasename(fResults[r][1]),
                     cells |-> [g \in DOMAIN groups |->
                                   ObjGet(fResults[r][2], groups[g][1])]]]]

-----------------------------------------------------------------------------
(* main *)

InputPath == <<"d">>
TermsPath == <<"t">>

\* process.exit(code): nothing after it runs
Exit(code) ==
    /\ pc' = "exited"
    /\ exitCode' = JsValue(code)

\* main up to the first use of termGroups: the argument check, then
\* readSearchTerms and the exit when it returned null
Main_LoadTerms ==
    /\ pc = "start"
    /\ IF Len(args) # 2
       THEN /\ log' = Append(log, LogEntry("Usage", <<>>, 0, 0))
            /\ Exit(1)
            /\ UNCHANGED termGroups
       ELSE LET r == readSearchTerms(disk, args[2])
            IN  /\ termGroups' = r.value
                /\ log' = log \o r.log
                /\ IF r.value.isNull
                   THEN Exit(1)
                   ELSE pc' = "enumerate" /\ UNCHANGED exitCode
    /\ UNCHANGED <<args, disk, filesToProcess, idx, results, fileResults, csv>>

\* getFilesToProcess and the exit when it found nothing
Main_Enumerate ==
    /\ pc = "enumerate"
    /\ LET r == getFilesToProcess(disk, args[1])
       IN  /\ filesToProcess' = r.value
           /\ IF r.value = <<>>
              THEN /\ log' = log \o r.log
                             \o <<LogEntry("Error: No files found", args[1], 0, 0)>>
                   /\ Exit(1)
              ELSE /\ log' = log \o r.log
                             \o <<LogEntry("Processing files", <<>>, Len(r.value), 0)>>
                   /\ pc' = "loop"
                   /\ UNCHANGED exitCode
    /\ UNCHANGED <<args, disk, termGroups, idx, results, fileResults, csv>>

\* the loop giving up at the first file that fails
Main_ProcessFile_StopOnFailure ==
    /\ pc = "loop"
    /\ idx < Len(filesToProcess)
    /\ LET filepath == filesToProcess[idx + 1]
           r == countOccurrences(disk, filepath, termGroups.value)
       IN  /\ results' = r.value
           /\ log' = log \o <<LogEntry("Processing file", filepath, idx + 1,
                                       Len(filesToProcess))>> \o r.log
           /\ IF ~r.value.isNull
              THEN /\ fileResults' = Append(fileResults, <<filepath, r.value.value>>)
                   /\ UNCHANGED <<pc, exitCode>>
              ELSE /\ UNCHANGED fileResults
                   /\ Exit(1)
    /\ idx' = idx + 1
    /\ UNCHANGED <<args, disk, termGroups, filesToProcess, csv>>

\* one iteration of the loop over filesToProcess
Main_ProcessFile ==
    /\ pc = "loop"
    /\ idx < Len(filesToProcess)
    /\ LET filepath == filesToProcess[idx + 1]
           r == countOccurrences(disk, filepath, termGroups.value)
       IN  /\ results' = r.value
           /\ IF ~r.value.isNull
              THEN /\ fileResults' = Append(fileResults, <<filepath, r.value.value>>)
                   /\ log' = log
                         \o <<LogEntry("Processing file", filepath, idx + 1, Len(filesToProcess))>>
                         \o r.log \o <<LogEntry("Completed", filepath, 0, 0)>>
              ELSE /\ UNCHANGED fileResults
                   /\ log' = log
                         \o <<LogEntry("Processing file", filepath, idx + 1, Len(filesToProcess))>>
                         \o r.log \o <<LogEntry("Failed", filepath, 0, 0)>>
    /\ idx' = idx + 1
    /\ UNCHANGED <<args, disk, pc, termGroups, filesToProcess, csv, exitCode>>

\* after the loop, with a result: writeResultsToCsv, the summary, and the
\* return of main (the process ends with exit code 0)
Main_WriteCsv ==
    /\ pc = "loop"
    /\ idx = Len(filesToProcess)
    /\ fileResults # <<>>
    /\ csv' = JsValue(CsvRecords(fileResults, termGroups.value))
    /\ log' = Append(log, LogEntry("Successfully processed", <<>>,
                                   Len(fileResults), Len(filesToProcess)))
    /\ Exit(0)
    /\ UNCHANGED <<args, disk, termGroups, filesToProcess, idx, results, fileResults>>

\* after the loop, without any result: main returns and nothing is written
Main_Return ==
    /\ pc = "loop"
    /\ idx = Len(filesToProcess)
    /\ fileResults = <<>>
    /\ Exit(0)
    /\ UNCHANGED <<args, disk, termGroups, filesToProcess, idx, results,
                   fileResults, csv, log>>

Next ==
    \/ Main_LoadTerms
    \/ Main_Enumerate
    \/ Main_ProcessFile
    \/ Main_WriteCsv
    \/ Main_Return

\* a call of countOccurrences on its own, for the properties of the function
CallCountOccurrences ==
    /\ pc = "call"
    /\ LET r == countOccurrences(disk, args[1], termGroups.value)
       IN  /\ results' = r.value
           /\ log' = log \o r.log
    /\ pc' = "returned"
    /\ UNCHANGED <<args, disk, termGroups, filesToProcess, idx, fileResults, csv, exitCode>>

NextCount == CallCountOccurrences

-----------------------------------------------------------------------------
(* Bounds and the inputs of the runs *)

MaxEntries == 3       \* entries of the input directory
MaxTermsLen == 4      \* characters of an enumerated terms file
MaxTextLen == 5       \* characters of an enumerated text
MaxAlternatives == 2  \* alternatives of an enumerated term group

StringsUpTo(alphabet, n) == UNION {[1..k -> alphabet] : k \in 0..n}

\* the texts of the specification's examples
CatText ==
    <<"T","h","e"," ","C","a","t"," ","s","a","t","."," ","T","h","e"," ",
      "c","a","t"," ","r","a","n","!"," ","c","a","t","s"," ",
      "e","v","e","r","y","w","h","e","r","e",".">>
WorksText == <<"i","t"," ","w","o","r","k","s",","," ","w","e","l","l",".">>
FastText == <<"c","+","+"," ","i","s"," ","f","a","s","t">>
CppText == <<"c","+","+">>

\* the terms files of the specification's examples
CatTerms == <<"c","a","t","\n","c","a","t","/","c","a","t","s","\n">>
CatDogTerms == <<"c","a","t","\n","\n","d","o","g","\n">>
WorksTerms == <<"w","o","r","k","s","\n","w","e","l","l","\n">>
CppTerms == <<"c","+","+","\n","c","\n">>
ProtoTerms == <<"c","a","t","\n","_","_","p","r","o","t","o","_","_","\n">>

EmptyDisk == [p \in {} |-> OtherNode]

\* the terms file: there and readable, there and unreadable, or missing
TermsDisks(contents) ==
    {TermsPath :> FileNode(TRUE, c) : c \in contents}

BrokenTermsDisks ==
    {EmptyDisk, TermsPath :> FileNode(FALSE, <<>>), TermsPath :> DirNode(TRUE, <<>>)}

\* the names in the input directory and what a file of that name holds
FileNames == {<<"a">>, <<"a","b">>, <<"b">>, <<"B">>}

ContentOf(name) ==
    IF name = <<"a">> THEN CatText
    ELSE IF name = <<"a","b">> THEN WorksText
    ELSE IF name = <<"b">> THEN FastText
    ELSE CppText

\* an entry is a readable file, a file that cannot be read, or a subdirectory
\* (which holds one file of its own)
EntryKinds == {"file", "locked", "dir"}

NestedName == <<"n">>

EntryDisk(path, name, kind) ==
    IF kind = "file" THEN path :> FileNode(TRUE, ContentOf(name))
    ELSE IF kind = "locked" THEN path :> FileNode(FALSE, ContentOf(name))
    ELSE (path :> DirNode(TRUE, <<NestedName>>))
         @@ (PathJoin(path, NestedName) :> FileNode(TRUE, ContentOf(name)))

Listings ==
    UNION {{l \in [1..k -> FileNames] : \A i, j \in 1..k : l[i] = l[j] => i = j}
           : k \in 0..MaxEntries}

RECURSIVE EntriesDisk(_, _, _)
EntriesDisk(listing, kinds, i) ==
    IF i > Len(listing) THEN EmptyDisk
    ELSE EntryDisk(PathJoin(InputPath, listing[i]), listing[i], kinds[i])
         @@ EntriesDisk(listing, kinds, i + 1)

DirectoryDisks ==
    {(InputPath :> DirNode(TRUE, lk[1])) @@ EntriesDisk(lk[1], lk[2], 1)
        : lk \in UNION {{<<l, k>> : k \in [1..Len(l) -> EntryKinds]} : l \in Listings}}

\* the input path is one file, something that is neither file nor directory,
\* a directory that cannot be listed, or missing
SingleInputDisks ==
    {InputPath :> FileNode(TRUE, CatText), InputPath :> FileNode(FALSE, CatText)}

OddInputDisks ==
    {InputPath :> OtherNode, InputPath :> DirNode(FALSE, <<>>), EmptyDisk}

InitMain ==
    /\ pc = "start"
    /\ termGroups = JsNull
    /\ filesToProcess = <<>>
    /\ idx = 0
    /\ results = JsNull
    /\ fileResults = <<>>
    /\ csv = JsNull
    /\ exitCode = JsNull
    /\ log = <<>>

\* a run of main over a directory of files
Init ==
    /\ InitMain
    /\ \/ /\ args = <<InputPath, TermsPath>>
          /\ \E t \in TermsDisks({CatTerms}) \cup BrokenTermsDisks,
                i \in DirectoryDisks \cup SingleInputDisks \cup OddInputDisks :
                 disk = t @@ i
       \/ /\ args \in {<<>>, <<InputPath>>}
          /\ disk = EmptyDisk

Spec == Init /\ [][Next]_vars

\* a run of main over one input file, for the terms files
TermsAlphabet == {"a", "/", "\n", " "}

TermsContents ==
    StringsUpTo(TermsAlphabet, MaxTermsLen) \cup {CatDogTerms, CatTerms, ProtoTerms}

InitTerms ==
    /\ InitMain
    /\ args = <<InputPath, TermsPath>>
    /\ \E t \in TermsDisks(TermsContents), i \in SingleInputDisks : disk = t @@ i

SpecTerms == InitTerms /\ [][Next]_vars

\* a call of countOccurrences on a text and term groups
TextAlphabet == {"a", ".", "+"}

CandidateTerms == {<<"a">>, <<"a","a">>, <<"A">>, <<"a","+">>, <<".","a">>}

RECURSIVE JoinWith(_, _)
JoinWith(pieces, sep) ==
    IF Len(pieces) = 1 THEN pieces[1]
    ELSE pieces[1] \o <<sep>> \o JoinWith(Tail(pieces), sep)

\* the term groups of a terms file of one line with the alternatives alts
GroupsOf(alts) == ParseTermGroups(JoinWith(alts, "/"))

EnumeratedGroups ==
    {GroupsOf(alts) : alts \in UNION {[1..k -> CandidateTerms] : k \in 1..MaxAlternatives}}

ExampleGroups ==
    {ParseTermGroups(c) : c \in {CatTerms, CatDogTerms, WorksTerms, CppTerms}}

ExampleTexts == {CatText, toLowerCase(CatText), WorksText, FastText, CppText}

InitCount ==
    /\ pc = "call"
    /\ args = <<InputPath>>
    /\ \E tg \in (StringsUpTo(TextAlphabet, MaxTextLen) \X EnumeratedGroups)
                 \cup (ExampleTexts \X ExampleGroups) :
          /\ disk = (InputPath :> FileNode(TRUE, tg[1]))
          /\ termGroups = JsValue(tg[2])
    /\ filesToProcess = <<>>
    /\ idx = 0
    /\ results = JsNull
    /\ fileResults = <<>>
    /\ csv = JsNull
    /\ exitCode = JsNull
    /\ log = <<>>

SpecCount == InitCount /\ [][NextCount]_vars

-----------------------------------------------------------------------------
(* Properties of countOccurrences, checked under SpecCount *)

\* the text of the call, the groups, and the count returned for a label
TextOfCall == disk[InputPath].content
GroupsOfCall == termGroups.value
Returned == pc = "returned" /\ ~results.isNull
IsLowercase(s) == s = toLowerCase(s)
IsSingle(group) == Len(group[2]) = 1

LetterDigitUnderscore ==
    Range(LowerLetters) \cup Range(UpperLetters) \cup Digits \cup {"_"}

IsLiteralWord(w) == w # <<>> /\ \A i \in DOMAIN w : w[i] \in LetterDigitUnderscore

\* the offsets at which w stands in text as a whole word: the characters
\* are those of w, and neither neighbour is a letter, a digit or an underscore
WholeWordOffsets(text, w) ==
    {p \in 0..(Len(text) - Len(w)) :
        /\ SubSeq(text, p + 1, p + Len(w)) = w
        /\ p = 0 \/ text[p] \notin LetterDigitUnderscore
        /\ p + Len(w) = Len(text) \/ text[p + Len(w) + 1] \notin LetterDigitUnderscore}

\* the count countOccurrences gives the term alone, as a group of its own
CountAlone(text, term) ==
    countOccurrences(InputPath :> FileNode(TRUE, text), InputPath, <<(<<term, <<term>> >>)>>)
        .value.value[term]

RECURSIVE SumAlone(_, _, _)
SumAlone(text, terms, j) ==
    IF j > Len(terms) THEN 0
    ELSE CountAlone(text, terms[j]) + SumAlone(text, terms, j + 1)

\* C1: for a lowercase text and a group of several alternatives, the count
\* stored for the group is the sum of the counts each alternative has on its
\* own in that text; nothing is deduplicated across the alternatives.
C1_GroupCountIsSumOfAlternatives ==
    (Returned /\ IsLowercase(TextOfCall)) =>
        \A g \in DOMAIN GroupsOfCall :
            Len(GroupsOfCall[g][2]) > 1 =>
                /\ GroupsOfCall[g][1] \in ObjKeys(results.value)
                /\ results.value[GroupsOfCall[g][1]]
                       = SumAlone(TextOfCall, GroupsOfCall[g][2], 1)

\* the example of the specification: cat/cats counts 2 + 1 = 3
C1_Witness ==
    /\ Returned
    /\ TextOfCall = toLowerCase(CatText)
    /\ \E g \in DOMAIN GroupsOfCall :
          /\ GroupsOfCall[g][2] = << <<"c","a","t">>, <<"c","a","t","s">> >>
          /\ results.value[GroupsOfCall[g][1]] = 3
          /\ CountAlone(TextOfCall, <<"c","a","t">>) = 2
          /\ CountAlone(TextOfCall, <<"c","a","t","s">>) = 1

\* C2: a term with regular-expression metacharacters is matched as literal
\* text and each occurrence is counted: "c++ is fast" with group "c++" gives 1.
C2_LiteralMetacharacterTermCounted ==
    (Returned /\ TextOfCall = FastText) =>
        \A g \in DOMAIN GroupsOfCall :
            GroupsOfCall[g][2] = << <<"c","+","+">> >> =>
                results.value[GroupsOfCall[g][1]] = 1

\* C3: for a group whose single alternative is a literal word w and a
\* lowercase text, the count returned for the group is the number of
\* whole-word occurrences of w (compared without regard to the case of w).
C3_SingleWordCountIsWholeWordCount ==
    (Returned /\ IsLowercase(TextOfCall)) =>
        \A g \in DOMAIN GroupsOfCall :
            (IsSingle(GroupsOfCall[g]) /\ IsLiteralWord(GroupsOfCall[g][2][1])) =>
                /\ GroupsOfCall[g][1] \in ObjKeys(results.value)
                /\ results.value[GroupsOfCall[g][1]]
                       = Cardinality(WholeWordOffsets(TextOfCall,
                                                      toLowerCase(GroupsOfCall[g][2][1])))

\* the example of the specification: cat counts 2, the cat of cats is not counted
C3_Witness ==
    /\ Returned
    /\ TextOfCall = toLowerCase(CatText)
    /\ \E g \in DOMAIN GroupsOfCall :
          /\ GroupsOfCall[g][2] = << <<"c","a","t">> >>
          /\ results.value[GroupsOfCall[g][1]] = 2
          /\ \E p \in 0..Len(TextOfCall) :
                /\ SubSeq(TextOfCall, p + 1, p + 4) = <<"c","a","t","s">>
                /\ p \notin WholeWordOffsets(TextOfCall, <<"c","a","t">>)

\* C4 as stated: the group "c" counts 0 on the text "c++".
C4_TermBeforePlusNotCounted ==
    (Returned /\ TextOfCall = CppText) =>
        \A g \in DOMAIN GroupsOfCall :
            GroupsOfCall[g][2] = << <<"c">> >> =>
                results.value[GroupsOfCall[g][1]] = 0

IsPlusRun(s) == s # <<>> /\ \A i \in DOMAIN s : s[i] = "+"

\* C4 as amended: a literal word that is the whole text but for a run of '+'
\* after it counts 1: '+' is no word character, so the word ends at a word
\* boundary (the group "c" counts 1 on the text "c++").
C4_TermBeforePlusCountedOnce ==
    Returned =>
        \A g \in DOMAIN GroupsOfCall :
            LET w == GroupsOfCall[g][2][1] IN
            ( /\ IsSingle(GroupsOfCall[g])
              /\ IsLiteralWord(w)
              /\ Len(TextOfCall) > Len(w)
              /\ SubSeq(TextOfCall, 1, Len(w)) = toLowerCase(w)
              /\ IsPlusRun(SubSeq(TextOfCall, Len(w) + 1, Len(TextOfCall))) ) =>
                results.value[GroupsOfCall[g][1]] = 1

C4_Witness ==
    /\ Returned
    /\ TextOfCall = CppText
    /\ \E g \in DOMAIN GroupsOfCall :
          /\ GroupsOfCall[g][2] = << <<"c">> >>
          /\ results.value[GroupsOfCall[g][1]] = 1

\* the matches of the term's pattern without the trailing punctuation class
MatchesWithoutAbsorption(text, term) ==
    LET atoms == NewRegExp(term).atoms
    IN  MatchAllFrom(SubSeq(atoms, 1, Len(atoms) - 1), toLowerCase(text), 0)

\* C5: consuming the closing punctuation after an occurrence neither splits
\* nor duplicates nor removes a count: every term counts what it counts when
\* the punctuation after its occurrences is not consumed.
C5_AbsorptionKeepsCounts ==
    Returned =>
        \A g \in DOMAIN GroupsOfCall :
            IsSingle(GroupsOfCall[g]) =>
                /\ GroupsOfCall[g][1] \in ObjKeys(results.value)
                /\ results.value[GroupsOfCall[g][1]]
                       = Len(MatchesWithoutAbsorption(TextOfCall, GroupsOfCall[g][2][1]))

-----------------------------------------------------------------------------
(* Properties of a run of main, checked under Spec and SpecTerms *)

ArgsGiven == Len(args) = 2
Readable(path) == FsReadFile(disk, path).err = ""
Logged(msg, path) == \E i \in DOMAIN log : log[i].msg = msg /\ log[i].path = path
IsReadableFile(path) == Readable(path)

\* the loop is over: main has returned or written the CSV
BatchDone ==
    ArgsGiven /\ pc = "exited" /\ ~termGroups.isNull /\ filesToProcess # <<>>

\* C6: when files of the batch cannot be read and at least one can, the CSV
\* has exactly one row for every readable file, in the order of the
\* enumerator, and none for an unreadable one; each failure is reported, every
\* file of the batch is processed, and the exit code is 0.
C6_UnreadableFileIsSkipped ==
    (BatchDone /\ \E i \in DOMAIN filesToProcess : Readable(filesToProcess[i])) =>
        LET good == SelectSeq(filesToProcess, IsReadableFile) IN
        /\ ~csv.isNull
        /\ Len(csv.value.rows) = Len(good)
        /\ \A r \in DOMAIN good : csv.value.rows[r].name = PathBasename(good[r])
        /\ \A i \in DOMAIN filesToProcess :
              /\ Logged("Processing file", filesToProcess[i])
              /\ ~Readable(filesToProcess[i]) => Logged("Failed", filesToProcess[i])
        /\ exitCode = JsValue(0)

\* an unreadable file between two readable ones
C6_Witness ==
    /\ BatchDone
    /\ Len(filesToProcess) = 3
    /\ Readable(filesToProcess[1])
    /\ ~Readable(filesToProcess[2])
    /\ Readable(filesToProcess[3])
    /\ ~csv.isNull
    /\ Len(csv.value.rows) = 2
    /\ exitCode = JsValue(0)

NothingScanned ==
    /\ csv.isNull
    /\ results.isNull
    /\ fileResults = <<>>
    /\ \A i \in DOMAIN log : log[i].msg # "Processing file"

TermsUnloadable == ArgsGiven /\ ~Readable(args[2])

NoFilesResolved ==
    ArgsGiven /\ ~termGroups.isNull /\ pc \in {"loop", "exited"} /\ filesToProcess = <<>>

\* C8: when the terms file cannot be loaded, or the input path resolves to
\* no file, the run ends with exit code 1 before any file is scanned and
\* before any CSV is written.
C8_TopLevelFailuresAreFatal ==
    /\ TermsUnloadable =>
          /\ pc \in {"start", "exited"}
          /\ pc = "exited" => exitCode = JsValue(1)
          /\ NothingScanned
    /\ NoFilesResolved =>
          /\ pc = "exited"
          /\ exitCode = JsValue(1)
          /\ NothingScanned

\* an empty input directory, with the terms loaded
C8_Witness ==
    /\ NoFilesResolved
    /\ InputPath \in DOMAIN disk
    /\ disk[InputPath].kind = "dir"
    /\ pc = "exited"
    /\ exitCode = JsValue(1)
    /\ Logged("Error: No files found", InputPath)

IsRegularFileOnDisk(path) == path \in DOMAIN disk /\ disk[path].kind = "file"

\* the regular files directly in the directory, sorted
RegularFilesIn(dir) ==
    LET names == disk[dir].entries
    IN  SortStrings(SelectSeq([i \in DOMAIN names |-> PathJoin(dir, names[i])],
                              IsRegularFileOnDisk))

\* C9: getFilesToProcess returns [path] for a regular file, the sorted list of
\* exactly the regular files directly in it for a directory, and the empty
\* list otherwise.
C9_EnumeratesRegularFilesOnly ==
    (ArgsGiven /\ ~termGroups.isNull /\ pc \in {"loop", "exited"}) =>
        filesToProcess =
            IF InputPath \notin DOMAIN disk THEN <<>>
            ELSE IF disk[InputPath].kind = "file" THEN <<InputPath>>
            ELSE IF disk[InputPath].kind = "dir" THEN RegularFilesIn(InputPath)
            ELSE <<>>

\* the pieces of s between the separators, by the offsets of the separators
CutsOf(s, sep) == {0} \cup {i \in DOMAIN s : s[i] = sep} \cup {Len(s) + 1}
NthOf(S, k) == CHOOSE x \in S : Cardinality({y \in S : y < x}) = k - 1
PieceCount(s, sep) == Cardinality(CutsOf(s, sep)) - 1
PieceAt(s, sep, k) ==
    SubSeq(s, NthOf(CutsOf(s, sep), k) + 1, NthOf(CutsOf(s, sep), k + 1) - 1)

\* s without the white space at its ends
StripSpace(s) ==
    LET solid(i) == s[i] \notin WhiteSpace
    IN  IF \A i \in DOMAIN s : ~solid(i) THEN <<>>
        ELSE SubSeq(s, CHOOSE a \in DOMAIN s : solid(a) /\ \A i \in 1..(a - 1) : ~solid(i),
                       CHOOSE b \in DOMAIN s : solid(b) /\ \A i \in (b + 1)..Len(s) : ~solid(i))

\* the lines of the terms file that are not blank, stripped, in file order
ExpectedLabels(content) ==
    LET kept == {k \in 1..PieceCount(content, "\n") :
                    StripSpace(PieceAt(content, "\n", k)) # <<>>}
    IN  [j \in 1..Cardinality(kept) |->
            StripSpace(PieceAt(content, "\n", NthOf(kept, j)))]

ExpectedAlternatives(label) ==
    [k \in 1..PieceCount(label, "/") |-> StripSpace(PieceAt(label, "/", k))]

TermsLoaded == ArgsGiven /\ pc # "start" /\ Readable(args[2])

\* C7: readSearchTerms gives one group per line that is not blank, in file
\* order; the label is the trimmed line, the alternatives are the line split
\* on '/' and trimmed, so at least one; the group columns of the CSV header
\* come in the same order.
C7_OneGroupPerNonBlankLine ==
    TermsLoaded =>
        LET labels == ExpectedLabels(disk[args[2]].content) IN
        /\ ~termGroups.isNull
        /\ Len(termGroups.value) = Len(labels)
        /\ \A j \in DOMAIN labels :
              /\ termGroups.value[j][1] = labels[j]
              /\ termGroups.value[j][2] = ExpectedAlternatives(labels[j])
              /\ Len(termGroups.value[j][2]) >= 1
        /\ ~csv.isNull => csv.value.header = <<FilenameHeader>> \o labels

\* the example of the specification: "cat\n\ndog\n" gives cat and dog
C7_Witness ==
    /\ TermsLoaded
    /\ disk[args[2]].content = CatDogTerms
    /\ termGroups.value = << <<(<<"c","a","t">>), <<(<<"c","a","t">>)>> >>,
                             <<(<<"d","o","g">>), <<(<<"d","o","g">>)>> >> >>
    /\ ~csv.isNull
    /\ csv.value.header = <<FilenameHeader, <<"c","a","t">>, <<"d","o","g">> >>

LabelsOf(groups) == {groups[g][1] : g \in DOMAIN groups}

\* C10: every result mapping of a file that was read has an entry for every
\* group label, no other key, and a non-negative integer in every entry.
C10_ResultKeysAreTheLabels ==
    \A r \in DOMAIN fileResults :
        /\ ObjKeys(fileResults[r][2]) = LabelsOf(termGroups.value)
        /\ \A k \in ObjKeys(fileResults[r][2]) : fileResults[r][2][k] \in Nat

====
